---- MODULE Spec2Model ----
(***************************************************************************)
(* A model of the two wrappers of this repository:                         *)
(*   - rawmidi/ump.c : the UMP handle over a rawmidi handle  (SpecUmp)     *)
(*   - the PCM file plugin : a PCM handle that mirrors the frames that     *)
(*     pass through a slave PCM to a file descriptor; its data path on an  *)
(*     open wrapper (Spec), its open, forwarding and close (SpecLife)      *)
(* Both wrap a lower layer that is not part of the repository.  The lower  *)
(* layer is the environment: each call to it is recorded in last.calls     *)
(* with the result the environment chose for it.                           *)
(***************************************************************************)
EXTENDS Integers, Sequences, FiniteSets, TLC

VARIABLES
    ump,        \* UMP: side -> the snd_ump_t of that side (alloc, is_input, rawmidi, flags)
    retp,       \* UMP: side -> what snd_ump_open left in *inputp / *outputp
    rmOpened,   \* UMP: side -> rawmidi handles opened for that side so far
    rmClosed,   \* UMP: side -> snd_rawmidi_close calls on that side's handles so far
    file,       \* PCM: the snd_pcm_file_t (alive, slave, close_slave, fname, fd)
    setup,      \* PCM: pcm->setup and the frame geometry (buffer_size, channels, bits)
    appl_ptr,   \* PCM: pcm->mmap_control->appl_ptr, shared with the slave
    slave,      \* PCM: the slave PCM (opens, closes, xfer = frames it reported transferred,
                \*      pos = xfer - frames it reported rewound)
    mirror,     \* PCM: the mirror descriptor (open, opens, closes, seekable, pos, written, data)
    aborted,    \* PCM: an assert() of the plugin failed
    last,       \* the last API call: op, arg, ret, calls to the wrapped layer, file operations
    nCalls      \* number of API calls made so far

vars == <<ump, retp, rmOpened, rmClosed, file, setup, appl_ptr, slave, mirror,
          aborted, last, nCalls>>

umpVars == <<ump, retp, rmOpened, rmClosed>>
pcmVars == <<file, setup, appl_ptr, slave, mirror, aborted>>

(***************************************************************************)
(* Bounds of the model.                                                    *)
(***************************************************************************)
MaxCalls == 2
MaxSize == 2
MaxBuf == 2

(***************************************************************************)
(* Error numbers (returned negated).                                       *)
(***************************************************************************)
EINVAL == 22
ENOMEM == 12

\* The negative result the wrapped layer may return (-EPIPE).
LowerErrs == {-32}

Sides == {"in", "out"}

NoCall == [op |-> "none", arg |-> <<>>, ret |-> 0, calls |-> <<>>, fileOps |-> <<>>]

Call(op, arg, ret, calls, fileOps) ==
    [op |-> op, arg |-> arg, ret |-> ret, calls |-> calls, fileOps |-> fileOps]

\* One call to the wrapped layer: its operation, the handle it is made on, its
\* argument and the result the wrapped layer returned.
Lower(op, h, arg, ret) == [op |-> op, h |-> h, arg |-> arg, ret |-> ret]

(***************************************************************************)
(*                         UMP  (rawmidi/ump.c)                            *)
(***************************************************************************)

\* The rawmidi info flags the driver may report for a side.
InfoFlags == SUBSET {"UMP", "DUPLEX"}

\* calloc(1, sizeof(snd_ump_t)): every field zero.
NoUmp == [alloc |-> FALSE, is_input |-> 0, rawmidi |-> FALSE, flags |-> {}]
ZeroUmp == [alloc |-> TRUE, is_input |-> 0, rawmidi |-> FALSE, flags |-> {}]

InitUmpVars ==
    /\ ump = [s \in Sides |-> NoUmp]
    /\ retp = [s \in Sides |-> "unset"]
    /\ rmOpened = [s \in Sides |-> 0]
    /\ rmClosed = [s \in Sides |-> 0]

InitPcmIdle ==
    /\ file = [alive |-> FALSE, close_slave |-> 0, fname |-> FALSE, fd |-> -1]
    /\ setup = [buffer_size |-> 1, channels |-> 1, bits_per_sample |-> 8]
    /\ appl_ptr = 0
    /\ slave = [opens |-> 0, closes |-> 0, pos |-> 0, xfer |-> 0]
    /\ mirror = [open |-> FALSE, opens |-> 0, closes |-> 0, seekable |-> TRUE,
                 pos |-> 0, written |-> 0, data |-> <<>>]
    /\ aborted = FALSE

InitUmp ==
    /\ InitUmpVars
    /\ InitPcmIdle
    /\ last = NoCall
    /\ nCalls = 0

\* Fault variant of get_rawmidi_flags_ret: the UMP bit is not tested.
get_rawmidi_flags_ret_anyflags(info) == IF info.err < 0 THEN info.err ELSE 0

\* get_rawmidi_flags: the result of snd_rawmidi_info is info = [err, flags].
get_rawmidi_flags_ret(info) ==
    IF info.err < 0 THEN info.err
    ELSE IF "UMP" \notin info.flags THEN -EINVAL
    ELSE 0

\* Fault variant of OpenArgsInvalid: the check of line 49 left out.
OpenArgsInvalid_unchecked(wantIn, wantOut) == FALSE

\* snd_ump_open, line 49: neither side requested.
OpenArgsInvalid(wantIn, wantOut) == ~wantIn /\ ~wantOut

\* Fault variant of ErrorPathCloses: no test of the rawmidi pointer before the close.
ErrorPathCloses_nonull(u) == u.alloc

\* snd_ump_open, lines 91 and 96: the error path closes a side's rawmidi handle.
ErrorPathCloses(u) == u.alloc /\ u.rawmidi

\* The calls the error path (lines 89-100) makes, given the two structs.
ErrorCloseCalls(uin, uout) ==
    (IF ErrorPathCloses(uin) THEN <<Lower("snd_rawmidi_close", "in", <<>>, 0)>> ELSE <<>>)
    \o (IF ErrorPathCloses(uout) THEN <<Lower("snd_rawmidi_close", "out", <<>>, 0)>> ELSE <<>>)

\* The outcome of snd_ump_open(inputp, outputp, name, mode):
\*   wantIn, wantOut  : inputp / outputp non-NULL
\*   okIn, okOut      : the two calloc succeed
\*   openRet          : the result of snd_rawmidi_open
\*   infoIn, infoOut  : the result of snd_rawmidi_info on each side
\* It yields the return value, the two structs on return, the calls made to
\* rawmidi, and which sides got a rawmidi handle.
UmpOpenOutcome(wantIn, wantOut, okIn, okOut, openRet, infoIn, infoOut) ==
    LET inA == IF wantIn /\ okIn THEN [ZeroUmp EXCEPT !.is_input = 1] ELSE NoUmp
        outA == IF wantOut /\ okOut /\ (wantIn => okIn) THEN ZeroUmp ELSE NoUmp
        openCall == Lower("snd_rawmidi_open", "both",
                          <<inA.alloc, outA.alloc>>, openRet)
        inO == IF inA.alloc THEN [inA EXCEPT !.rawmidi = TRUE] ELSE inA
        outO == IF outA.alloc THEN [outA EXCEPT !.rawmidi = TRUE] ELSE outA
        infoInCall == Lower("snd_rawmidi_info", "in", infoIn.flags, infoIn.err)
        infoOutCall == Lower("snd_rawmidi_info", "out", infoOut.flags, infoOut.err)
        errIn == get_rawmidi_flags_ret(infoIn)
        errOut == get_rawmidi_flags_ret(infoOut)
        inF == [inO EXCEPT !.flags = infoIn.flags]
        outF == [outO EXCEPT !.flags = infoOut.flags]
        allocCalls ==
            (IF wantIn THEN <<Lower("calloc", "in", <<>>, IF okIn THEN 0 ELSE -ENOMEM)>>
             ELSE <<>>)
            \o (IF wantOut /\ (wantIn => okIn)
                THEN <<Lower("calloc", "out", <<>>, IF okOut THEN 0 ELSE -ENOMEM)>>
                ELSE <<>>)
        infoCallsIn == IF inO.alloc THEN <<infoInCall>> ELSE <<>>
        infoCallsOut == IF outO.alloc THEN <<infoOutCall>> ELSE <<>>
        Fail(err, uin, uout, calls, opened) ==
            [ret |-> err, uin |-> NoUmp, uout |-> NoUmp,
             calls |-> calls \o ErrorCloseCalls(uin, uout),
             opened |-> opened, inp |-> FALSE, outp |-> FALSE]
        opened == [s \in Sides |-> IF s = "in" THEN inA.alloc ELSE outA.alloc]
        none == [s \in Sides |-> FALSE]
    IN  IF OpenArgsInvalid(wantIn, wantOut)
        THEN [ret |-> -EINVAL, uin |-> NoUmp, uout |-> NoUmp, calls |-> <<>>,
              opened |-> none, inp |-> FALSE, outp |-> FALSE]
        ELSE IF (wantIn /\ ~okIn) \/ (wantOut /\ ~okOut)
        THEN Fail(-ENOMEM, inA, outA, allocCalls, none)
        ELSE IF openRet < 0
        THEN Fail(openRet, inA, outA, allocCalls \o <<openCall>>, none)
        ELSE IF inO.alloc /\ errIn < 0
        THEN Fail(errIn, inO, outO, allocCalls \o <<openCall, infoInCall>>, opened)
        ELSE IF outO.alloc /\ errOut < 0
        THEN Fail(errOut, IF inO.alloc THEN inF ELSE inO, outO,
                  allocCalls \o <<openCall>> \o infoCallsIn \o <<infoOutCall>>, opened)
        ELSE [ret |-> 0,
              uin |-> IF inO.alloc THEN inF ELSE inO,
              uout |-> IF outO.alloc THEN outF ELSE outO,
              calls |-> allocCalls \o <<openCall>> \o infoCallsIn \o infoCallsOut,
              opened |-> opened, inp |-> wantIn, outp |-> wantOut]

\* How many calls of `op` on handle `h` a call log holds.
CountCalls(calls, op, h) ==
    Cardinality({i \in 1..Len(calls) : calls[i].op = op /\ calls[i].h = h})

InfoResults == [err : {0}, flags : InfoFlags] \cup [err : {-5}, flags : {{}}]

snd_ump_open ==
    /\ nCalls < MaxCalls
    /\ \A s \in Sides : ~ump[s].alloc
    /\ \E wantIn, wantOut, okIn, okOut \in BOOLEAN :
       \E openRet \in {0, -2} :
       \E infoIn, infoOut \in InfoResults :
          LET o == UmpOpenOutcome(wantIn, wantOut, okIn, okOut, openRet, infoIn, infoOut)
          IN  /\ ump' = [s \in Sides |-> IF s = "in" THEN o.uin ELSE o.uout]
              /\ retp' = [s \in Sides |->
                            LET want == IF s = "in" THEN wantIn ELSE wantOut
                                got == IF s = "in" THEN o.inp ELSE o.outp
                            IN  IF ~want THEN "unset"
                                ELSE IF got THEN "handle" ELSE "NULL"]
              /\ rmOpened' = [s \in Sides |->
                                rmOpened[s] + (IF o.opened[s] THEN 1 ELSE 0)]
              /\ rmClosed' = [s \in Sides |->
                                rmClosed[s] + CountCalls(o.calls, "snd_rawmidi_close", s)]
              /\ last' = Call("snd_ump_open", <<wantIn, wantOut>>, o.ret, o.calls, <<>>)
    /\ nCalls' = nCalls + 1
    /\ UNCHANGED pcmVars

\* snd_ump_close: closes the rawmidi handle, frees the struct, returns the
\* result of snd_rawmidi_close.
snd_ump_close ==
    /\ nCalls < MaxCalls
    /\ \E s \in Sides : \E r \in {0} \cup LowerErrs :
          /\ ump[s].alloc
          /\ ump' = [ump EXCEPT ![s] = NoUmp]
          /\ rmClosed' = [rmClosed EXCEPT ![s] = @ + 1]
          /\ last' = Call("snd_ump_close", <<s>>, r,
                          <<Lower("snd_rawmidi_close", s, <<>>, r)>>, <<>>)
    /\ nCalls' = nCalls + 1
    /\ UNCHANGED <<retp, rmOpened>>
    /\ UNCHANGED pcmVars

\* Fault variant of WriteRejected: the direction is not tested.
WriteRejected_never(u) == FALSE

\* snd_ump_write, line 272: an input handle may not be written.
WriteRejected(u) == u.is_input # 0

\* snd_ump_read / snd_ump_tread, lines 286 and 302: only an input handle may be read.
ReadRejected(u) == u.is_input = 0

\* The wrapped rawmidi operation of a data operation.
RawmidiOpOf(op) ==
    CASE op = "snd_ump_write" -> "snd_rawmidi_write"
      [] op = "snd_ump_read" -> "snd_rawmidi_read"
      [] op = "snd_ump_tread" -> "snd_rawmidi_tread"

UmpIoOps == {"snd_ump_write", "snd_ump_read", "snd_ump_tread"}

UmpIoRejected(op, u) ==
    IF op = "snd_ump_write" THEN WriteRejected(u) ELSE ReadRejected(u)

\* snd_ump_write, snd_ump_read, snd_ump_tread on the handle of side s with a
\* buffer of `size` bytes; r is what rawmidi returns if it is called.
snd_ump_io ==
    /\ nCalls < MaxCalls
    /\ \E s \in Sides : \E op \in UmpIoOps : \E size \in 0..MaxSize :
       \E r \in (0..size) \cup LowerErrs :
          /\ ump[s].alloc
          /\ last' = IF UmpIoRejected(op, ump[s])
                     THEN Call(op, <<s, size>>, -EINVAL, <<>>, <<>>)
                     ELSE Call(op, <<s, size>>, r,
                               <<Lower(RawmidiOpOf(op), s, <<size>>, r)>>, <<>>)
    /\ nCalls' = nCalls + 1
    /\ UNCHANGED umpVars
    /\ UNCHANGED pcmVars

\* The operations of ump.c that only forward to the rawmidi operation of the
\* same name (lines 150-262, 451-454, 613-616).
UmpForwardOps == {"poll_descriptors_count", "poll_descriptors",
                  "poll_descriptors_revents", "nonblock", "info", "params",
                  "params_current", "status", "drop", "drain"}

snd_ump_forward ==
    /\ nCalls < MaxCalls
    /\ \E s \in Sides : \E op \in UmpForwardOps : \E r \in {0} \cup LowerErrs :
          /\ ump[s].alloc
          /\ last' = Call(op, <<s>>, r, <<Lower(op, s, <<>>, r)>>, <<>>)
    /\ nCalls' = nCalls + 1
    /\ UNCHANGED umpVars
    /\ UNCHANGED pcmVars

NextUmp ==
    \/ snd_ump_open
    \/ snd_ump_close
    \/ snd_ump_io
    \/ snd_ump_forward

SpecUmp == InitUmp /\ [][NextUmp]_vars

(***************************************************************************)
(*                 PCM file plugin: the data path  (Spec)                  *)
(***************************************************************************)

\* pcm->bits_per_frame, as lines 769-770 lay the channels out in a frame.
bits_per_frame == setup.bits_per_sample * setup.channels

\* snd_pcm_frames_to_bytes(pcm, frames), used at lines 748, 760, 783, 807.
FramesToBytes(frames) == (frames * bits_per_frame) \div 8

\* The boundary at which the slave wraps appl_ptr: a multiple of buffer_size.
Boundary == 2 * setup.buffer_size

\* The geometries a setup may have.
Setups == [buffer_size : 1..MaxBuf, channels : {1, 2}, bits_per_sample : {16}]

\* A wrapper as a successful snd_pcm_file_open leaves it (lines 989-992),
\* here over a file it opened by name, with a slave it is to close.
OpenedFile == [alive |-> TRUE, close_slave |-> 1, fname |-> TRUE, fd |-> 3]

Init ==
    /\ InitUmpVars
    /\ file = OpenedFile
    /\ setup \in Setups
    /\ appl_ptr \in 0..(setup.buffer_size - 1)
    /\ slave = [opens |-> 1, closes |-> 0, pos |-> 0, xfer |-> 0]
    /\ \E sk \in BOOLEAN :
          mirror = [open |-> TRUE, opens |-> 1, closes |-> 0, seekable |-> sk,
                    pos |-> 0, written |-> 0, data |-> <<>>]
    /\ aborted = FALSE
    /\ last = NoCall
    /\ nCalls = 0

\* What the slave may return for a transfer of `size` frames.
XferResults(size) == (0..size) \cup LowerErrs

\* One write(file->fd, buf, bytes) and the assert that follows it (lines
\* 774-775, 784-785, 808-809): ok is whether write returned `bytes`.
\* The write takes frames [ofs, ofs + frames) of the buffer it is handed.
WriteOp(ofs, frames, ok) ==
    [op |-> "write", ofs |-> ofs, frames |-> frames,
     bytes |-> FramesToBytes(frames), ok |-> ok]

\* The file operations of a call, cut after the first write whose assert fails.
RECURSIVE UpToFailure(_)
UpToFailure(ops) ==
    IF ops = <<>> THEN <<>>
    ELSE IF ~Head(ops).ok THEN <<Head(ops)>>
    ELSE <<Head(ops)>> \o UpToFailure(Tail(ops))

\* The bytes the successful writes of a log put into the file.
RECURSIVE BytesOf(_)
BytesOf(ops) ==
    IF ops = <<>> THEN 0
    ELSE (IF Head(ops).op = "write" /\ Head(ops).ok THEN Head(ops).bytes ELSE 0)
         + BytesOf(Tail(ops))

AssertFailed(ops) == \E i \in 1..Len(ops) : ops[i].op = "write" /\ ~ops[i].ok

\* Mark the bad-th write of a list as failing (bad = 0: none fails).
WithFailure(ops, bad) ==
    UpToFailure([i \in 1..Len(ops) |-> [ops[i] EXCEPT !.ok = (i # bad)]])

\* The bytes a write takes from a buffer of buflen bytes. A byte is named
\* by its place in the buffer it comes from (the first byte is 1); a byte
\* from outside the buffer is -1.
BufBytes(buflen, w) ==
    [j \in 1..w.bytes |->
        IF FramesToBytes(w.ofs) + j <= buflen THEN FramesToBytes(w.ofs) + j ELSE -1]

\* write(fd, buf, bytes) at offset pos of a file holding data: the bytes
\* replace what was at pos .. pos + bytes - 1 and extend the file.
WriteAt(data, pos, bytes) ==
    SubSeq(data, 1, pos) \o bytes \o SubSeq(data, pos + Len(bytes) + 1, Len(data))

\* The file content after the successful writes of a log, started at pos.
RECURSIVE DataAfter(_, _, _, _)
DataAfter(data, pos, buflen, ops) ==
    IF ops = <<>> THEN data
    ELSE IF Head(ops).op = "write" /\ Head(ops).ok
         THEN DataAfter(WriteAt(data, pos, BufBytes(buflen, Head(ops))),
                        pos + Head(ops).bytes, buflen, Tail(ops))
         ELSE DataAfter(data, pos, buflen, Tail(ops))

\* The mirror descriptor after the writes of a call from a buffer of buflen
\* bytes.
MirrorAfterWrites(buflen, ops) ==
    [mirror EXCEPT !.pos = @ + BytesOf(ops), !.written = @ + BytesOf(ops),
                   !.data = DataAfter(@, mirror.pos, buflen, ops)]

\* The slave after it transferred n frames (n <= 0: nothing moved).
SlaveAfter(n) ==
    [slave EXCEPT !.pos = @ + (IF n > 0 THEN n ELSE 0),
                  !.xfer = @ + (IF n > 0 THEN n ELSE 0)]
ApplAfter(n) == IF n > 0 THEN (appl_ptr + n) % Boundary ELSE appl_ptr

\* The slave operation each transfer operation of the plugin calls
\* (lines 781, 794, 805, 818).
SlaveXferOp(op) ==
    CASE op = "snd_pcm_file_writei" -> "snd_pcm_writei"
      [] op = "snd_pcm_file_writen" -> "snd_pcm_writen"
      [] op = "snd_pcm_file_readi" -> "snd_pcm_readi"
      [] op = "snd_pcm_file_readn" -> "snd_pcm_writen"

\* Fault variant of XferWriteOfs: writes the last n frames of the buffer.
XferWriteOfs_tail(size, n) == size - n

\* The frame of the buffer the write of writei / readi / writen / readn
\* starts at: write(file->fd, buffer, bytes), lines 784, 808 (and offset 0
\* handed to snd_pcm_file_write_areas, lines 797, 821).
XferWriteOfs(size, n) == 0

\* Fault variant of XferMirrorFrames: mirrors the frames asked for.
XferMirrorFrames_size(size, n) == size

\* The frames writei / readi / writen / readn mirror after the slave
\* returned n > 0 (lines 783, 797, 807, 821).
XferMirrorFrames(size, n) == n

\* snd_pcm_file_writei, _writen, _readi, _readn: the slave call, then, if it
\* returned n > 0, one write of n frames taken from the start of the buffer.
Xfer(op) ==
    /\ nCalls < MaxCalls /\ ~aborted /\ file.alive
    /\ \E size \in 0..MaxSize : \E n \in XferResults(size) :
       \E bad \in 0..(IF n > 0 THEN 1 ELSE 0) :
          LET ops == IF n > 0
                     THEN WithFailure(<<WriteOp(XferWriteOfs(size, n),
                                                    XferMirrorFrames(size, n),
                                                    TRUE)>>, bad)
                     ELSE <<>>
          IN  /\ slave' = SlaveAfter(n)
              /\ appl_ptr' = ApplAfter(n)
              /\ mirror' = MirrorAfterWrites(FramesToBytes(size), ops)
              /\ aborted' = AssertFailed(ops)
              /\ last' = Call(op, <<size>>, n,
                              <<Lower(SlaveXferOp(op), "slave", <<size>>, n)>>, ops)
    /\ nCalls' = nCalls + 1
    /\ UNCHANGED <<file, setup>>
    /\ UNCHANGED umpVars

snd_pcm_file_writei == Xfer("snd_pcm_file_writei")
snd_pcm_file_writen == Xfer("snd_pcm_file_writen")
snd_pcm_file_readi == Xfer("snd_pcm_file_readi")
snd_pcm_file_readn == Xfer("snd_pcm_file_readn")

\* snd_pcm_file_mmap_forward, line 835: the frames still to mirror.
MmapFrames(size, n, xfer) == size - xfer

\* Fault variant of Cont: the room is taken from the start of the ring.
Cont_unclipped(ofs) == setup.buffer_size

\* snd_pcm_file_mmap_forward, line 836: the contiguous room from ofs to the
\* end of the ring.
Cont(ofs) == setup.buffer_size - ofs

\* Fault variant of RingWrap: the offset is never taken back to 0.
RingWrap_missing(ofs) == ofs

\* snd_pcm_file_mmap_forward, lines 842-843: the offset after a write, back
\* at 0 when it reached the end of the ring.
RingWrap(ofs) == IF ofs = setup.buffer_size THEN 0 ELSE ofs

\* The iterations of the mirroring loop that are followed: a loop that wants
\* more has not ended (for n <= size each iteration that moves xfer moves it
\* by 1 at least, so n iterations are the most a loop that ends can make).
MmapLoopCap == MaxSize + 1

\* The loop still running at ofs after MmapLoopCap iterations.
StillLooping(ofs) ==
    [op |-> "spin", ofs |-> ofs, frames |-> 0, bytes |-> 0, ok |-> TRUE]

Spinning(ops) == \E i \in 1..Len(ops) : ops[i].op = "spin"

\* The loop of snd_pcm_file_mmap_forward (lines 834-844): the ranges
\* [ofs, ofs + frames) it hands to snd_pcm_file_write_areas, in order; left
\* is the number of iterations still followed.
RECURSIVE MmapWrites(_, _, _, _, _)
MmapWrites(ofs, xfer, n, size, left) ==
    IF ~(xfer < n) THEN <<>>
    ELSE IF left = 0 THEN <<StillLooping(ofs)>>
    ELSE LET want == MmapFrames(size, n, xfer)
             cont == Cont(ofs)
             frames == IF cont < want THEN cont ELSE want
             ofs2 == RingWrap(ofs + frames)
         IN  <<WriteOp(ofs, frames, TRUE)>>
                 \o MmapWrites(ofs2, xfer + frames, n, size, left - 1)

snd_pcm_file_mmap_forward ==
    /\ nCalls < MaxCalls /\ ~aborted /\ file.alive
    /\ \E size \in 0..MaxSize : \E n \in XferResults(size) :
       \E bad \in 0..(IF n > 0 THEN Len(MmapWrites(appl_ptr % setup.buffer_size, 0, n, size,
                                                    MmapLoopCap))
                      ELSE 0) :
          LET ofs == appl_ptr % setup.buffer_size
              ops == IF n > 0 THEN WithFailure(MmapWrites(ofs, 0, n, size, MmapLoopCap), bad)
                     ELSE <<>>
          IN  /\ slave' = SlaveAfter(n)
              /\ appl_ptr' = ApplAfter(n)
              /\ mirror' = MirrorAfterWrites(FramesToBytes(setup.buffer_size), ops)
              /\ aborted' = (AssertFailed(ops) \/ Spinning(ops))
              /\ last' = Call("snd_pcm_file_mmap_forward", <<size>>, n,
                              <<Lower("snd_pcm_mmap_forward", "slave", <<size>>, n)>>,
                              ops)
    /\ nCalls' = nCalls + 1
    /\ UNCHANGED <<file, setup>>
    /\ UNCHANGED umpVars

\* Fault variant of RewindSeekFrames: seeks by the frames asked for.
RewindSeekFrames_asked(frames, f) == frames

\* snd_pcm_file_rewind, line 748: the frames the descriptor is moved back by.
RewindSeekFrames(frames, f) == f

\* lseek(fd, off, SEEK_CUR): the new offset, or -1 on a descriptor that
\* cannot seek or when the offset would be negative.
Lseek(off) ==
    IF ~mirror.seekable \/ mirror.pos + off < 0 THEN -1 ELSE mirror.pos + off

\* snd_pcm_file_rewind: the slave rewinds, and for f > 0 the descriptor is
\* moved back; a failing lseek is returned instead of f.
snd_pcm_file_rewind ==
    /\ nCalls < MaxCalls /\ ~aborted /\ file.alive
    /\ \E frames \in 0..MaxSize : \E f \in (0..frames) \cup LowerErrs :
          LET off == 0 - FramesToBytes(RewindSeekFrames(frames, f))
              err == Lseek(off)
              seek == [op |-> "lseek", off |-> off, ret |-> err]
          IN  /\ slave' = [slave EXCEPT !.pos = @ - (IF f > 0 THEN f ELSE 0)]
              /\ appl_ptr' = IF f > 0 THEN (appl_ptr + Boundary - f) % Boundary
                             ELSE appl_ptr
              /\ mirror' = IF f > 0 /\ err >= 0 THEN [mirror EXCEPT !.pos = err]
                           ELSE mirror
              /\ last' = Call("snd_pcm_file_rewind", <<frames>>,
                              IF f > 0 /\ err < 0 THEN err ELSE f,
                              <<Lower("snd_pcm_rewind", "slave", <<frames>>, f)>>,
                              IF f > 0 THEN <<seek>> ELSE <<>>)
    /\ nCalls' = nCalls + 1
    /\ UNCHANGED <<file, setup, aborted>>
    /\ UNCHANGED umpVars

\* The transport/control operations of snd_pcm_file_fast_ops that only
\* forward (lines 694-740).
ControlOps == {"status", "state", "delay", "prepare", "start", "stop", "drain", "pause"}

\* Fault variant of SlaveControlOp: start wired to the slave's stop.
SlaveControlOp_crossed(op) == IF op = "start" THEN "stop" ELSE op

\* The slave operation a control operation calls: snd_pcm_<op>.
SlaveControlOp(op) == op

\* The arguments of a control operation that reach the slave: pause's enable.
ControlArgs(op) == IF op = "pause" THEN {<<0>>, <<1>>} ELSE {<<>>}

\* What a control operation returns, given the slave's result r.
ControlRet(r) == r

snd_pcm_file_control ==
    /\ nCalls < MaxCalls /\ ~aborted /\ file.alive
    /\ \E op \in ControlOps : \E arg \in ControlArgs(op) : \E r \in {0, 1} \cup LowerErrs :
          last' = Call(op, arg, ControlRet(r),
                       <<Lower(SlaveControlOp(op), "slave", arg, r)>>, <<>>)
    /\ nCalls' = nCalls + 1
    /\ UNCHANGED pcmVars
    /\ UNCHANGED umpVars

Next ==
    \/ snd_pcm_file_writei
    \/ snd_pcm_file_writen
    \/ snd_pcm_file_readi
    \/ snd_pcm_file_readn
    \/ snd_pcm_file_mmap_forward
    \/ snd_pcm_file_rewind
    \/ snd_pcm_file_control

Spec == Init /\ [][Next]_vars

(***************************************************************************)
(*         PCM file plugin: open, forwarding and close  (SpecLife)         *)
(***************************************************************************)

InitLife ==
    /\ InitUmpVars
    /\ InitPcmIdle
    /\ last = NoCall
    /\ nCalls = 0

\* Fault variant of CloseOwnsFd: the descriptor is closed whoever opened it.
CloseOwnsFd_always(f) == TRUE

\* snd_pcm_file_close, line 656: the descriptor is closed (and the name
\* freed) when the wrapper opened the file by name.
CloseOwnsFd(f) == f.fname

\* snd_pcm_file_close, line 654.
ClosesSlave(f) == f.close_slave # 0

\* snd_pcm_file_close, line 661.
FileCloseRet(err) == 0

\* snd_pcm_file_close run on the private struct f; r is what closing the
\* slave returns if it is closed.  Yields the calls, the file operations and
\* the return value.
FileClose(f, r) ==
    [calls |-> IF ClosesSlave(f) THEN <<Lower("snd_pcm_close", "slave", <<>>, r)>>
               ELSE <<>>,
     fileOps |-> IF CloseOwnsFd(f) THEN <<[op |-> "close", fd |-> f.fd]>> ELSE <<>>,
     ret |-> FileCloseRet(IF ClosesSlave(f) THEN r ELSE 0)]

NoFile == [alive |-> FALSE, close_slave |-> 0, fname |-> FALSE, fd |-> -1]

\* The descriptor open(fname, O_WRONLY|O_CREAT, 0666) returns (line 981).
OpenedFd == 3

\* The outcome of snd_pcm_file_open(handlep, fname, fd, slave, close_slave):
\*   openRet    : what open() returns for the name (the descriptor, or -errno)
\*   okFile, okHandle : the two calloc succeed
\*   initRet    : the result of snd_pcm_init
\*   closeRet   : the result of closing the slave, if it comes to that
FileOpenOutcome(fname, fd, close_slave, openRet, okFile, okHandle, initRet, closeRet) ==
    LET fd1 == IF fname THEN openRet ELSE fd
        openOps == IF fname THEN <<[op |-> "open", fd |-> openRet]>> ELSE <<>>
        f == [alive |-> TRUE, close_slave |-> close_slave, fname |-> fname, fd |-> fd1]
        callocFile == Lower("calloc", "file", <<>>, IF okFile THEN 0 ELSE -ENOMEM)
        callocHandle == Lower("calloc", "handle", <<>>, IF okHandle THEN 0 ELSE -ENOMEM)
        initCall == Lower("snd_pcm_init", "handle", <<>>, initRet)
        cl == FileClose(f, closeRet)
    IN  IF fname /\ openRet < 0
        THEN [ret |-> openRet, file |-> NoFile, calls |-> <<>>, fileOps |-> openOps]
        ELSE IF ~okFile
        THEN [ret |-> -ENOMEM, file |-> NoFile, calls |-> <<callocFile>>,
              fileOps |-> openOps]
        ELSE IF ~okHandle
        THEN [ret |-> -ENOMEM, file |-> NoFile, calls |-> <<callocFile, callocHandle>>,
              fileOps |-> openOps]
        ELSE IF initRet < 0
        THEN [ret |-> initRet, file |-> NoFile,
              calls |-> <<callocFile, callocHandle, initCall,
                          Lower("snd_pcm_close", "handle", <<>>, cl.ret)>> \o cl.calls,
              fileOps |-> openOps \o cl.fileOps]
        ELSE [ret |-> 0, file |-> f, calls |-> <<callocFile, callocHandle, initCall>>,
              fileOps |-> openOps]

\* The mirror descriptor after the file operations of an open or a close:
\* open() gives a fresh descriptor at offset 0, close() closes it; a
\* descriptor handed in by the caller is open already.
RECURSIVE MirrorAfter(_, _)
MirrorAfter(m, ops) ==
    IF ops = <<>> THEN m
    ELSE LET o == Head(ops)
             m1 == IF o.op = "open" /\ o.fd >= 0
                   THEN [m EXCEPT !.open = TRUE, !.opens = @ + 1, !.pos = 0,
                                  !.written = 0]
                   ELSE IF o.op = "close"
                   THEN [m EXCEPT !.open = FALSE, !.closes = @ + 1]
                   ELSE m
         IN  MirrorAfter(m1, Tail(ops))

SlaveAfterCalls(sl, calls) ==
    [sl EXCEPT !.opens = @ + Cardinality({i \in 1..Len(calls) :
                               calls[i].op = "snd_pcm_open" /\ calls[i].ret >= 0}),
               !.closes = @ + CountCalls(calls, "snd_pcm_close", "slave")]

\* What open() may return for the file name, what snd_pcm_init and closing
\* the slave may return.
OpenRets == {OpenedFd, -13}
StatusRets == {0} \cup LowerErrs

\* snd_pcm_file_open called by an application with a slave it opened itself
\* and either a file name or a descriptor of its own.
snd_pcm_file_open ==
    /\ nCalls = 0 /\ ~file.alive
    /\ \E fname \in BOOLEAN : \E close_slave \in {0, 1} :
       \E openRet \in OpenRets : \E okFile, okHandle \in BOOLEAN :
       \E initRet, closeRet \in StatusRets :
          LET fd == IF fname THEN -1 ELSE 5
              given == [mirror EXCEPT !.open = ~fname]
              o == FileOpenOutcome(fname, fd, close_slave, openRet, okFile, okHandle,
                                   initRet, closeRet)
          IN  /\ file' = o.file
              /\ mirror' = MirrorAfter(given, o.fileOps)
              /\ slave' = SlaveAfterCalls([slave EXCEPT !.opens = @ + 1], o.calls)
              /\ last' = Call("snd_pcm_file_open", <<fname, fd, close_slave>>, o.ret,
                              o.calls, o.fileOps)
    /\ nCalls' = nCalls + 1
    /\ UNCHANGED <<setup, appl_ptr, aborted>>
    /\ UNCHANGED umpVars

\* The nodes a configuration may hold: an id and the type of its value.
ConfNodes ==
    [id : {"comment", "type", "stream", "bogus"}, kind : {"string"}, val : {0}]
    \cup [id : {"sname"}, kind : {"string", "integer"}, val : {0}]
    \cup [id : {"file"}, kind : {"string", "compound"}, val : {0}]
    \cup [id : {"file"}, kind : {"integer"}, val : {5, -1}]

MaxConf == 2

RECURSIVE SeqsUpTo(_, _)
SeqsUpTo(S, n) ==
    IF n = 0 THEN {<<>>}
    ELSE LET shorter == SeqsUpTo(S, n - 1)
         IN  shorter \cup {Append(q, x) : q \in shorter, x \in S}

Confs == SeqsUpTo(ConfNodes, MaxConf)

\* The loop of _snd_pcm_file_open over the configuration (lines 1027-1051),
\* from the values found so far: err < 0 when it returned -EINVAL.
RECURSIVE ParseConf(_, _)
ParseConf(conf, acc) ==
    IF conf = <<>> THEN acc
    ELSE LET n == Head(conf)
             rest == Tail(conf)
         IN  IF n.id \in {"comment", "type", "stream"} THEN ParseConf(rest, acc)
             ELSE IF n.id = "sname"
             THEN IF n.kind = "string"
                  THEN ParseConf(rest, [acc EXCEPT !.sname = TRUE])
                  ELSE [acc EXCEPT !.err = -EINVAL]
             ELSE IF n.id = "file"
             THEN IF n.kind = "string"
                  THEN ParseConf(rest, [acc EXCEPT !.fname = TRUE])
                  ELSE IF n.kind = "integer"
                  THEN ParseConf(rest, [acc EXCEPT !.fd = n.val])
                  ELSE [acc EXCEPT !.err = -EINVAL]
             ELSE [acc EXCEPT !.err = -EINVAL]

\* Lines 1022-1026.
ParseStart == [err |-> 0, sname |-> FALSE, fname |-> FALSE, fd |-> -1]

\* Fault variant of ConfIncomplete: only sname is required.
ConfIncomplete_snameonly(p) == ~p.sname

\* Line 1052.
ConfIncomplete(p) == ~p.sname \/ (~p.fname /\ p.fd < 0)

\* _snd_pcm_file_open: parses the configuration, opens the slave named by
\* sname, builds the wrapper with close_slave = 1 and, if that fails, closes
\* the slave.
_snd_pcm_file_open ==
    /\ nCalls = 0 /\ ~file.alive
    /\ \E conf \in Confs :
          LET p == ParseConf(conf, ParseStart)
          IN  IF p.err < 0 \/ ConfIncomplete(p)
              THEN /\ last' = Call("_snd_pcm_file_open", conf, -EINVAL, <<>>, <<>>)
                   /\ UNCHANGED <<file, mirror, slave>>
              ELSE \E okName, okSname \in BOOLEAN : \E slaveRet \in StatusRets :
                   \E openRet \in OpenRets : \E okFile, okHandle \in BOOLEAN :
                   \E initRet, closeRet \in StatusRets :
                      LET dupName == IF p.fname
                                     THEN <<Lower("strdup", "fname", <<>>,
                                                  IF okName THEN 0 ELSE -ENOMEM)>>
                                     ELSE <<>>
                          dupSname == <<Lower("strdup", "sname", <<>>,
                                              IF okSname THEN 0 ELSE -ENOMEM)>>
                          slaveOpen == <<Lower("snd_pcm_open", "slave", <<>>, slaveRet)>>
                          given == [mirror EXCEPT !.open = ~p.fname]
                          o == FileOpenOutcome(p.fname, p.fd, 1, openRet, okFile,
                                               okHandle, initRet, closeRet)
                          r == IF p.fname /\ ~okName
                               THEN [ret |-> -ENOMEM, file |-> NoFile, calls |-> dupName,
                                     fileOps |-> <<>>]
                               ELSE IF ~okSname
                               THEN [ret |-> -ENOMEM, file |-> NoFile,
                                     calls |-> dupName \o dupSname, fileOps |-> <<>>]
                               ELSE IF slaveRet < 0
                               THEN [ret |-> slaveRet, file |-> NoFile,
                                     calls |-> dupName \o dupSname \o slaveOpen,
                                     fileOps |-> <<>>]
                               ELSE [ret |-> o.ret, file |-> o.file,
                                     calls |-> dupName \o dupSname \o slaveOpen \o o.calls
                                        \o (IF o.ret < 0
                                            THEN <<Lower("snd_pcm_close", "slave", <<>>, 0)>>
                                            ELSE <<>>),
                                     fileOps |-> o.fileOps]
                      IN  /\ file' = r.file
                          /\ mirror' = MirrorAfter(given, r.fileOps)
                          /\ slave' = SlaveAfterCalls(slave, r.calls)
                          /\ last' = Call("_snd_pcm_file_open", conf, r.ret, r.calls,
                                          r.fileOps)
    /\ nCalls' = nCalls + 1
    /\ UNCHANGED <<setup, appl_ptr, aborted>>
    /\ UNCHANGED umpVars

\* snd_pcm_file_close, reached through snd_pcm_close on the wrapper.
snd_pcm_file_close ==
    /\ nCalls < MaxCalls /\ file.alive
    /\ \E r \in StatusRets :
          LET cl == FileClose(file, r)
          IN  /\ file' = NoFile
              /\ mirror' = MirrorAfter(mirror, cl.fileOps)
              /\ slave' = SlaveAfterCalls(slave, cl.calls)
              /\ last' = Call("snd_pcm_file_close", <<>>, cl.ret, cl.calls, cl.fileOps)
    /\ nCalls' = nCalls + 1
    /\ UNCHANGED <<setup, appl_ptr, aborted>>
    /\ UNCHANGED umpVars

\* The operations of snd_pcm_file_ops and snd_pcm_file_fast_ops that only
\* forward to the slave operation of the same name (lines 664-692, 848-918).
ForwardOps == {"nonblock", "info", "channel_info", "channel_params", "channel_setup",
               "avail_update", "mmap_status", "mmap_control", "mmap_data",
               "munmap_status", "munmap_control", "munmap_data", "poll_descriptor",
               "channels_mask", "params_info", "params", "setup"}

snd_pcm_file_forward ==
    /\ nCalls < MaxCalls /\ file.alive
    /\ \E op \in ForwardOps : \E r \in StatusRets :
          last' = Call(op, <<>>, r, <<Lower(op, "slave", <<>>, r)>>, <<>>)
    /\ nCalls' = nCalls + 1
    /\ UNCHANGED pcmVars
    /\ UNCHANGED umpVars

NextLife ==
    \/ snd_pcm_file_open
    \/ _snd_pcm_file_open
    \/ snd_pcm_file_forward
    \/ snd_pcm_file_close

SpecLife == InitLife /\ [][NextLife]_vars

(***************************************************************************)
(*                      Claims about the UMP wrapper                       *)
(***************************************************************************)

LastIsUmpOpen == last.op = "snd_ump_open"

\* The snd_rawmidi_open call of the last snd_ump_open succeeded.
RawmidiOpenSucceeded ==
    \E i \in 1..Len(last.calls) :
        last.calls[i].op = "snd_rawmidi_open" /\ last.calls[i].ret >= 0

\* C3: every rawmidi handle obtained inside snd_ump_open is closed exactly
\* once over its life.  In every state, each side's handles opened so far
\* have each been closed once, except the one a live wrapper still holds,
\* which has not been closed.  A failed snd_ump_open whose snd_rawmidi_open
\* succeeded has closed each requested side once and freed both structs; a
\* failed snd_rawmidi_open is followed by no close; snd_ump_close closes its
\* wrapper's handle once.
C3_RawmidiClosedExactlyOnce ==
    /\ \A s \in Sides :
          rmClosed[s] = rmOpened[s] - (IF ump[s].alloc /\ ump[s].rawmidi THEN 1 ELSE 0)
    /\ (LastIsUmpOpen /\ last.ret < 0) =>
          /\ \A s \in Sides : ~ump[s].alloc
          /\ RawmidiOpenSucceeded =>
                \A s \in Sides :
                    CountCalls(last.calls, "snd_rawmidi_close", s)
                        = (IF (s = "in" /\ last.arg[1]) \/ (s = "out" /\ last.arg[2])
                           THEN 1 ELSE 0)
          /\ ~RawmidiOpenSucceeded =>
                \A s \in Sides : CountCalls(last.calls, "snd_rawmidi_close", s) = 0
    /\ (LastIsUmpOpen /\ last.ret = 0) =>
          \A s \in Sides : CountCalls(last.calls, "snd_rawmidi_close", s) = 0
    /\ last.op = "snd_ump_close" =>
          /\ CountCalls(last.calls, "snd_rawmidi_close", last.arg[1]) = 1
          /\ Len(last.calls) = 1
          /\ ~ump[last.arg[1]].alloc

\* A failed open of both sides, after rawmidi opened both: both are closed.
C3_Witness ==
    /\ LastIsUmpOpen /\ last.ret < 0 /\ RawmidiOpenSucceeded
    /\ last.arg = <<TRUE, TRUE>>
    /\ CountCalls(last.calls, "snd_rawmidi_close", "in") = 1
    /\ CountCalls(last.calls, "snd_rawmidi_close", "out") = 1

\* The side a handle was opened as does not match the operation: a write on
\* the input handle, a read or tread on the output handle.
DirectionMismatch(op, s) ==
    \/ op = "snd_ump_write" /\ s = "in"
    \/ op \in {"snd_ump_read", "snd_ump_tread"} /\ s = "out"

\* C4: a write on the input handle and a read or tread on the output handle
\* return -EINVAL without any call on the rawmidi handle; when the direction
\* matches, the rawmidi operation of the same kind is called exactly once, on
\* that handle and with that size, and its result is returned unchanged.
C4_DirectionChecked ==
    last.op \in UmpIoOps =>
        IF DirectionMismatch(last.op, last.arg[1])
        THEN last.ret = -EINVAL /\ last.calls = <<>>
        ELSE /\ Len(last.calls) = 1
             /\ last.calls[1].op = RawmidiOpOf(last.op)
             /\ last.calls[1].h = last.arg[1]
             /\ last.calls[1].arg = <<last.arg[2]>>
             /\ last.ret = last.calls[1].ret

\* A write on the input handle was rejected.
C4_Witness ==
    /\ last.op = "snd_ump_write" /\ last.arg[1] = "in"
    /\ last.ret = -EINVAL /\ last.calls = <<>>
    /\ ump["in"].alloc /\ ump["in"].is_input = 1

\* C5: snd_ump_open with inputp and outputp both NULL returns -EINVAL, having
\* made no calloc and no snd_rawmidi_open: no wrapper struct exists and no
\* rawmidi handle was opened by it.
C5_NeitherSideRejected ==
    (LastIsUmpOpen /\ last.arg = <<FALSE, FALSE>>) =>
        /\ last.ret = -EINVAL
        /\ last.calls = <<>>
        /\ \A s \in Sides : ~ump[s].alloc /\ rmOpened[s] = rmClosed[s]

\* An open with neither side requested was rejected.
C5_Witness ==
    LastIsUmpOpen /\ last.arg = <<FALSE, FALSE>> /\ last.ret = -EINVAL

(***************************************************************************)
(*                Claims about the PCM file plugin's data path             *)
(***************************************************************************)

\* C1: the bytes written to the mirror file so far equal (the sum of the
\* frame counts n > 0 the slave returned for writei, writen, readi, readn and
\* mmap_forward) x (bytes per frame), as long as nothing was rewound.
C1_BytesMatchFrames ==
    (~aborted /\ slave.pos = slave.xfer) =>
        mirror.written = FramesToBytes(slave.xfer)

LastIsMmapForward == last.op = "snd_pcm_file_mmap_forward"

\* The step is a call of the named operation.
StepOf(op) == nCalls' = nCalls + 1 /\ last'.op = op

\* C6 as stated: a rewind called with K frames moves the mirror position back
\* by exactly K x bytes-per-frame, whatever the slave's rewind returns.
C6_RewindByRequested ==
    [][StepOf("snd_pcm_file_rewind") =>
          mirror'.pos = mirror.pos - FramesToBytes(last'.arg[1])]_vars

\* C6, amended: a rewind moves the mirror position back by exactly
\* f x bytes-per-frame, f being the frame count the slave's rewind returned,
\* whenever it returns a positive count (and it then returns f); when it
\* returns zero or a negative value (the slave rewound nothing, or the seek
\* failed) the mirror position is not moved.
C6_RewindBySlaveResult ==
    [][StepOf("snd_pcm_file_rewind") =>
          LET f == last'.calls[1].ret
              r == last'.ret
          IN  /\ r > 0 => (r = f /\ mirror'.pos = mirror.pos - FramesToBytes(f))
              /\ r <= 0 => mirror'.pos = mirror.pos
              /\ f <= 0 => r = f
              /\ mirror'.written = mirror.written]_vars

\* A rewind of more frames than the slave rewound, with a successful seek.
C6_Witness ==
    /\ last.op = "snd_pcm_file_rewind"
    /\ last.ret > 0 /\ last.ret < last.arg[1]
    /\ Len(last.fileOps) = 1 /\ last.fileOps[1].ret >= 0
    /\ last.fileOps[1].off = 0 - FramesToBytes(last.ret)

\* C7: a snd_pcm_file_mmap_forward of at most buffer_size frames makes at
\* most two writes; each covers a ring range [ofs, ofs + frames) that ends at
\* or before buffer_size; the first starts at appl_ptr mod buffer_size as it
\* was before the slave forwarded, the second at ring offset 0.
C7_AtMostTwoContiguousWrites ==
    [][(StepOf("snd_pcm_file_mmap_forward") /\ last'.arg[1] <= setup.buffer_size) =>
          LET w == last'.fileOps
          IN  /\ Len(w) <= 2
              /\ \A i \in 1..Len(w) :
                    /\ w[i].op = "write"
                    /\ w[i].ofs >= 0
                    /\ w[i].ofs + w[i].frames <= setup.buffer_size
              /\ Len(w) >= 1 => w[1].ofs = appl_ptr % setup.buffer_size
              /\ Len(w) = 2 => w[2].ofs = 0]_vars

\* A forward that crossed the end of the ring: two writes, the second at 0.
C7_Witness ==
    /\ LastIsMmapForward /\ ~aborted
    /\ last.arg[1] <= setup.buffer_size
    /\ Len(last.fileOps) = 2
    /\ last.fileOps[1].ofs + last.fileOps[1].frames = setup.buffer_size
    /\ last.fileOps[2].ofs = 0

\* C10: prepare, start, stop, drain, pause, status, state and delay each call
\* the slave operation of the same name exactly once with the same arguments,
\* return its result unchanged, and leave the mirror file (its content and
\* its write position) as it was.
C10_ControlOpsForwardOnly ==
    [][(nCalls' = nCalls + 1 /\ last'.op \in ControlOps) =>
          /\ last'.calls = <<Lower(last'.op, "slave", last'.arg, last'.ret)>>
          /\ last'.fileOps = <<>>
          /\ mirror' = mirror
          /\ slave' = slave /\ file' = file]_vars

\* A control operation on a wrapper whose mirror file already holds frames.
C10_Witness ==
    /\ last.op = "pause" /\ last.arg = <<1>>
    /\ Len(last.calls) = 1 /\ last.calls[1].ret = last.ret
    /\ mirror.written > 0

(***************************************************************************)
(*          Claims about the PCM file plugin's open and close              *)
(***************************************************************************)

\* The last call was _snd_pcm_file_open, it opened the slave and then failed.
CfgOpenFailedAfterSlaveOpen ==
    /\ last.op = "_snd_pcm_file_open"
    /\ last.ret < 0
    /\ \E i \in 1..Len(last.calls) :
          last.calls[i].op = "snd_pcm_open" /\ last.calls[i].ret >= 0

\* C2: when _snd_pcm_file_open opened the slave and snd_pcm_file_open then
\* failed, the slave has been closed exactly once when the error is
\* returned; and the slave is never closed more often than it was opened.
C2_SlaveClosedExactlyOnce ==
    /\ CfgOpenFailedAfterSlaveOpen =>
          CountCalls(last.calls, "snd_pcm_close", "slave") = 1
    /\ slave.closes <= slave.opens

\* C8 as stated: snd_pcm_file_close closes the mirror descriptor in every
\* case, and closes the slave if and only if close_slave was set.
C8_CloseAlwaysClosesFd ==
    [][StepOf("snd_pcm_file_close") =>
          /\ ~mirror'.open /\ mirror'.closes = mirror.closes + 1
          /\ slave'.closes = slave.closes + (IF file.close_slave # 0 THEN 1 ELSE 0)]_vars

\* C8, amended: snd_pcm_file_close closes the mirror descriptor if and only
\* if the wrapper opened it itself from a file name (a descriptor supplied by
\* the caller is left open), and closes the slave if and only if close_slave
\* was set at open.
C8_CloseClosesOwnFd ==
    [][StepOf("snd_pcm_file_close") =>
          /\ IF file.fname
             THEN ~mirror'.open /\ mirror'.closes = mirror.closes + 1
             ELSE mirror' = mirror /\ mirror.open
          /\ slave'.closes = slave.closes + (IF file.close_slave # 0 THEN 1 ELSE 0)
          /\ ~file'.alive]_vars

\* A wrapper over a caller's descriptor and a caller's slave was closed: both
\* are still open.
C8_Witness ==
    /\ last.op = "snd_pcm_file_close"
    /\ last.calls = <<>> /\ last.fileOps = <<>>
    /\ mirror.open /\ slave.closes = 0 /\ slave.opens = 1
    /\ ~file.alive

\* The operations that make exactly one call to the slave.
PcmOneCallOps == ForwardOps \cup {"snd_pcm_file_close"}

\* C9: an operation that calls the wrapped layer and receives a negative
\* status returns that status; in particular snd_pcm_file_close returns the
\* error of closing the slave.
C9_NegativeStatusReturned ==
    (last.op \in PcmOneCallOps /\ Len(last.calls) = 1 /\ last.calls[1].ret < 0) =>
        last.ret = last.calls[1].ret

(***************************************************************************)
(*                 Claims about the UMP wrapper, continued                 *)
(***************************************************************************)

\* The side was requested in the last snd_ump_open.
Requested(s) == IF s = "in" THEN last.arg[1] ELSE last.arg[2]

\* The snd_rawmidi_info calls of the last call that succeeded on side s; the
\* argument of such a call holds the flags the driver reported.
InfoCallsOn(s) ==
    {i \in 1..Len(last.calls) :
        /\ last.calls[i].op = "snd_rawmidi_info"
        /\ last.calls[i].h = s
        /\ last.calls[i].ret = 0}

\* C11: snd_ump_open succeeds only if the rawmidi info of every requested
\* side advertises UMP.  If a requested side's info lacks the UMP flag the
\* open returns -EINVAL, leaves NULL in every requested pointer (also when
\* the other side advertised UMP) and keeps no struct.  On success exactly
\* the requested handles are returned, each with the reported flags, the UMP
\* flag among them, cached.
C11_UmpCapabilityRequired ==
    LastIsUmpOpen =>
        /\ (\E s \in Sides : \E i \in InfoCallsOn(s) : "UMP" \notin last.calls[i].arg) =>
              /\ last.ret = -EINVAL
              /\ \A s \in Sides : Requested(s) => retp[s] = "NULL"
              /\ \A s \in Sides : ~ump[s].alloc
        /\ last.ret = 0 =>
              /\ RawmidiOpenSucceeded
              /\ \A s \in Sides :
                    IF Requested(s)
                    THEN /\ retp[s] = "handle" /\ ump[s].alloc /\ ump[s].rawmidi
                         /\ Cardinality(InfoCallsOn(s)) = 1
                         /\ \A i \in InfoCallsOn(s) : ump[s].flags = last.calls[i].arg
                         /\ "UMP" \in ump[s].flags
                    ELSE retp[s] = "unset" /\ ~ump[s].alloc
        /\ last.ret < 0 => \A s \in Sides : retp[s] # "handle" /\ ~ump[s].alloc

\* Both sides requested; the input advertised UMP, the output did not.
C11_Witness ==
    /\ LastIsUmpOpen /\ last.arg = <<TRUE, TRUE>>
    /\ last.ret = -EINVAL
    /\ \E i \in InfoCallsOn("in") : "UMP" \in last.calls[i].arg
    /\ \E i \in InfoCallsOn("out") : "UMP" \notin last.calls[i].arg
    /\ retp["in"] = "NULL" /\ retp["out"] = "NULL"

(***************************************************************************)
(*       Claims about the PCM file plugin's open and close, continued      *)
(***************************************************************************)

LastIsCfgOpen == last.op = "_snd_pcm_file_open"

\* What a configuration (the argument of the last _snd_pcm_file_open) holds.
ConfHasSname(conf) == \E i \in 1..Len(conf) : conf[i].id = "sname"
ConfHasFile(conf) ==
    \E i \in 1..Len(conf) :
        /\ conf[i].id = "file"
        /\ \/ conf[i].kind = "string"
           \/ conf[i].kind = "integer" /\ conf[i].val >= 0
ConfHasOtherKey(conf) ==
    \E i \in 1..Len(conf) :
        conf[i].id \notin {"comment", "type", "stream", "sname", "file"}

FileOpsSucceeded(c) ==
    \A i \in 1..Len(c.fileOps) :
        /\ c.fileOps[i].op = "write" => c.fileOps[i].ok
        /\ c.fileOps[i].op = "lseek" => c.fileOps[i].ret >= 0

\* C13: over snd_pcm_file_writei, snd_pcm_file_readi and snd_pcm_file_rewind
\* calls whose file writes and seeks succeed, the mirror position tracks the
\* slave's logical position: each such call moves the mirror position by
\* (frames the slave reported transferred - frames it reported rewound)
\* x bytes-per-frame, so the position relative to the one at open is
\* (total transferred - total rewound) x bytes-per-frame.
C13_MirrorTracksSlave ==
    [][((\/ StepOf("snd_pcm_file_writei")
         \/ StepOf("snd_pcm_file_readi")
         \/ StepOf("snd_pcm_file_rewind")) /\ FileOpsSucceeded(last')) =>
          /\ mirror'.pos - mirror.pos = FramesToBytes(slave'.pos - slave.pos)
          /\ mirror.pos = FramesToBytes(slave.pos) =>
                 mirror'.pos = FramesToBytes(slave'.pos)]_vars

\* Frames were written, then some of them rewound with a successful seek,
\* and the mirror position is the slave's position in bytes.
C13_Witness ==
    /\ last.op = "snd_pcm_file_rewind" /\ last.ret > 0
    /\ FileOpsSucceeded(last)
    /\ slave.xfer > slave.pos /\ slave.pos > 0
    /\ mirror.pos = FramesToBytes(slave.pos)

TransferOps ==
    {"snd_pcm_file_writei", "snd_pcm_file_writen", "snd_pcm_file_readi",
     "snd_pcm_file_readn", "snd_pcm_file_mmap_forward"}

\* The slave operation of the same kind and direction as a transfer operation.
SameKindSlaveOp(op) ==
    CASE op = "snd_pcm_file_writei" -> "snd_pcm_writei"
      [] op = "snd_pcm_file_writen" -> "snd_pcm_writen"
      [] op = "snd_pcm_file_readi" -> "snd_pcm_readi"
      [] op = "snd_pcm_file_readn" -> "snd_pcm_readn"
      [] op = "snd_pcm_file_mmap_forward" -> "snd_pcm_mmap_forward"

\* C14: each frame-transfer operation calls the slave exactly once, and the
\* call is the slave operation of the same kind and direction; a readn never
\* issues a write on the slave.
C14_DelegatesToSameKind ==
    last.op \in TransferOps =>
        /\ Len(last.calls) = 1
        /\ last.calls[1].h = "slave"
        /\ last.calls[1].op = SameKindSlaveOp(last.op)

\* The first k bytes of a caller's buffer.
BufferPrefix(k) == [j \in 1..k |-> j]

\* C15: over snd_pcm_file_writei / snd_pcm_file_readi calls on a mirror file
\* that was not rewound (its position is its end), each call whose write
\* succeeds appends exactly the first n x bytes-per-frame bytes of its buffer,
\* n being the positive frame count the slave returned for it, and a call
\* for which the slave returned no frames appends nothing; the slave is
\* called with the caller's size and the write's length is taken from its
\* result. So the file is the concatenation of those prefixes in call order.
C15_AppendsTransferredFrames ==
    [][((StepOf("snd_pcm_file_writei") \/ StepOf("snd_pcm_file_readi"))
        /\ mirror.pos = Len(mirror.data) /\ FileOpsSucceeded(last')) =>
          LET n == last'.calls[1].ret
              size == last'.arg[1]
          IN  /\ last'.calls[1].arg = <<size>>
              /\ n > 0 => /\ mirror'.data = mirror.data \o BufferPrefix(FramesToBytes(n))
                          /\ Len(last'.fileOps) = 1
                          /\ last'.fileOps[1].ofs = 0
                          /\ last'.fileOps[1].bytes = FramesToBytes(n)
              /\ n <= 0 => mirror'.data = mirror.data /\ last'.fileOps = <<>>
              /\ mirror'.pos = Len(mirror'.data)]_vars

\* Two calls each transferred fewer frames than asked, and the file holds
\* the first call's frames followed by the second's.
C15_Witness ==
    /\ last.op \in {"snd_pcm_file_writei", "snd_pcm_file_readi"}
    /\ last.ret > 0 /\ last.ret < last.arg[1] /\ FileOpsSucceeded(last)
    /\ Len(mirror.data) > FramesToBytes(last.ret)
    /\ mirror.pos = Len(mirror.data)
    /\ SubSeq(mirror.data, Len(mirror.data) - FramesToBytes(last.ret) + 1,
              Len(mirror.data)) = BufferPrefix(FramesToBytes(last.ret))

\* C16: snd_pcm_file_rewind is atomic with respect to failure: when it
\* returns a negative value, neither the slave's position nor the mirror
\* file's write position has changed.
C16_RewindAtomicOnFailure ==
    [][(StepOf("snd_pcm_file_rewind") /\ last'.ret < 0) =>
          /\ slave'.pos = slave.pos
          /\ mirror'.pos = mirror.pos]_vars

\* The frames the writes of a log cover.
RECURSIVE SumFrames(_)
SumFrames(ops) ==
    IF ops = <<>> THEN 0 ELSE Head(ops).frames + SumFrames(Tail(ops))

\* C18: for a slave result n with 1 <= n <= size the mirroring loop of
\* snd_pcm_file_mmap_forward ends: every iteration writes at least one frame
\* from a ring offset in [0, buffer_size), so it makes at most n iterations,
\* and when its writes succeed it stops at the first iteration that brings
\* the frames mirrored to n or more.
C18_MmapLoopTerminates ==
    (LastIsMmapForward /\ last.calls[1].ret >= 1) =>
        LET w == last.fileOps
            n == last.calls[1].ret
        IN  /\ n <= last.arg[1]
            /\ ~Spinning(w)
            /\ Len(w) <= n
            /\ \A i \in 1..Len(w) :
                  /\ w[i].op = "write"
                  /\ w[i].frames >= 1
                  /\ w[i].ofs >= 0 /\ w[i].ofs < setup.buffer_size
            /\ FileOpsSucceeded(last) =>
                  /\ Len(w) >= 1
                  /\ SumFrames(w) >= n
                  /\ SumFrames(SubSeq(w, 1, Len(w) - 1)) < n

\* A forward of n >= 2 frames from the middle of the ring whose loop ended
\* after two iterations.
C18_Witness ==
    /\ LastIsMmapForward /\ last.ret >= 2
    /\ FileOpsSucceeded(last) /\ ~aborted
    /\ Len(last.fileOps) = 2
    /\ last.fileOps[1].ofs > 0 /\ last.fileOps[1].frames >= 1
    /\ SumFrames(last.fileOps) >= last.ret

(***************************************************************************)
(*   Claims about the PCM file plugin's open and close: descriptor leaks   *)
(***************************************************************************)

\* C17: when snd_pcm_file_open returns a negative error after it opened
\* the mirror file itself from a file name, the descriptor it opened has been
\* closed before it returns.
C17_FailedOpenClosesFd ==
    (last.op \in {"snd_pcm_file_open", "_snd_pcm_file_open"} /\ last.ret < 0) =>
        \A i \in 1..Len(last.fileOps) :
            (last.fileOps[i].op = "open" /\ last.fileOps[i].fd >= 0) =>
                /\ \E j \in (i + 1)..Len(last.fileOps) :
                      /\ last.fileOps[j].op = "close"
                      /\ last.fileOps[j].fd = last.fileOps[i].fd
                /\ ~mirror.open

====
